---- MODULE Spec2Model ----
(***************************************************************************)
(* AutoTransfer (index.js): per-account sweep workers with retry/backoff,  *)
(* endpoint failover and batched broadcast of queued token operations.     *)
(* index.js holds two variants of the program: the multi-network one       *)
(* (lines 1-402: hiveWorker, hiveEngineWorker, steemWorker, blurtWorker)   *)
(* and the single-network one (lines 404-598: accountWorker).              *)
(*                                                                         *)
(* Amounts are fixed-point integers.  A native balance reported by a chain *)
(* has 3 decimals; the model counts in sub-units, Sub of them per 0.001,   *)
(* so that a configured reserve may have more than 3 decimals.             *)
(***************************************************************************)
EXTENDS Integers, Sequences, FiniteSets, TLC

\* ---------------------------------------------------------------- bounds
\* sub-units per 0.001 of a native asset
Sub == 10
\* largest native balance a chain reports, in units of 0.001
MaxBal == 2
\* largest configured reserve, in sub-units
MaxReserve == 12
\* longest token list the token ledger returns in the dispatch specification
MaxTokens == 7
\* largest options.maxAttempts handed to retryAsync in its own specification
MaxAttemptsOpt == 6
\* largest number of configured endpoints of one list
MaxRpcs == 2
\* largest STEEM_RPC list where the rotation is followed
MaxSteemRpcs == 3
\* largest number of rotateSteemRpc calls counted
MaxRotations == 4
\* most accepted operations the indexing service is behind by
MaxChain == 2

\* ------------------------------------------------------ program constants
CUSTOM_JSON_LIMIT == 5
RETRY_MAX_ATTEMPTS == 3
RETRY_BASE_DELAY_MS == 1000
RETRY_MAX_DELAY_MS == 15000
\* the jitter is Math.floor(Math.random() * 250)
JITTER_MS == 250

Workers == {"w1", "w2"}
Order == <<"w1", "w2">>

KindsV1 == {"hive", "engine", "steem", "blurt"}
KindsV2 == {"account"}
Kinds == KindsV1 \cup KindsV2
Assets == {"HIVE", "HBD", "STEEM", "SBD", "BLURT"}

\* the assets a worker sweeps, in the order its cycle handles them
AssetsOf(k) ==
  CASE k = "hive" -> <<"HIVE", "HBD">>
    [] k = "steem" -> <<"STEEM", "SBD">>
    [] k = "blurt" -> <<"BLURT">>
    [] k = "account" -> <<"HIVE", "HBD">>
    [] OTHER -> << >>

\* the configured destination a worker's operations name
DestOf(k) ==
  CASE k = "hive" -> "DEST_HIVE_NATIVE"
    [] k = "engine" -> "DEST_HIVE_TOKENS"
    [] k = "steem" -> "DEST_STEEM"
    [] k = "blurt" -> "DEST_BLURT"
    [] k = "account" -> "DESTINATION_ACCOUNT"
    [] OTHER -> ""

\* the reserve used when the environment sets none: `|| 0` (lines 16-20) in
\* the multi-network variant, `|| 0.001` (lines 413-414) in accountWorker's
DefaultReserve(k) == IF k = "account" THEN Sub ELSE 0

\* ------------------------------------------------------------------ errors
NoErr == [status |-> 0, code |-> "", message |-> ""]

E503 == [status |-> 503, code |-> "ERR_BAD_RESPONSE",
         message |-> "Request failed with status code 503"]
E404 == [status |-> 404, code |-> "ERR_BAD_REQUEST",
         message |-> "Request failed with status code 404"]
EReset == [status |-> 0, code |-> "ECONNRESET", message |-> "read ECONNRESET"]
EHangUp == [status |-> 0, code |-> "", message |-> "socket hang up"]
EUnavailable == [status |-> 0, code |-> "", message |-> "Service Unavailable"]
EAuth == [status |-> 0, code |-> "", message |-> "Missing Active Authority"]

Errors == {E503, E404, EReset, EHangUp, EUnavailable, EAuth}
FewErrors == {E503, EAuth}

toLowerCase(s) ==
  CASE s = "Request failed with status code 503" -> "request failed with status code 503"
    [] s = "Request failed with status code 404" -> "request failed with status code 404"
    [] s = "Service Unavailable" -> "service unavailable"
    [] s = "Missing Active Authority" -> "missing active authority"
    [] OTHER -> s

\* String.prototype.includes on the lower-cased messages above
includes(s, needle) ==
  CASE needle = "status code 5" -> s = "request failed with status code 503"
    [] needle = "service unavailable" -> s = "service unavailable"
    [] needle = "socket hang up" -> s = "socket hang up"
    [] needle = "network error" -> s = "network error"
    [] OTHER -> FALSE

isRetryableError(err) ==
  \/ err.status # 0 /\ err.status >= 500
  \/ err.code # "" /\ err.code \in {"ECONNRESET", "ETIMEDOUT", "EAI_AGAIN", "ECONNREFUSED"}
  \/ LET msg == toLowerCase(err.message)
     IN  \/ includes(msg, "status code 5")
         \/ includes(msg, "service unavailable")
         \/ includes(msg, "socket hang up")
         \/ includes(msg, "network error")

\* -------------------------------------------------------------- retryAsync
\* One call of retryAsync: its loop counter, its options, and counters of what
\* it has done (invocations of fn, backoff sleeps, onRetry callbacks); err is
\* the error the catch block holds.  fails and last record what fn did: how
\* often it rejected, and its latest rejection; delayMs is the length of the
\* latest backoff sleep.
NoCall ==
  [state |-> "idle", attempt |-> 0, maxAttempts |-> 0, onRetry |-> FALSE,
   calls |-> 0, sleeps |-> 0, onRetries |-> 0, err |-> NoErr,
   fails |-> 0, last |-> NoErr, delayMs |-> 0]

\* entry of retryAsync up to the first `await fn()`; maxAttempts 0 stands for
\* an option that is not set
RetryStart(maxAttemptsOpt, onRetry) ==
  [state |-> "calling", attempt |-> 1,
   maxAttempts |-> IF maxAttemptsOpt = 0 THEN RETRY_MAX_ATTEMPTS ELSE maxAttemptsOpt,
   onRetry |-> onRetry, calls |-> 1, sleeps |-> 0, onRetries |-> 0, err |-> NoErr,
   fails |-> 0, last |-> NoErr, delayMs |-> 0]

RetryOnSuccess(r) == [r EXCEPT !.state = "returned"]

\* a catch block that gives up one attempt early
RetryOnError_OffByOne(r, err) ==
  IF ~isRetryableError(err) \/ r.attempt >= r.maxAttempts - 1
  THEN [r EXCEPT !.state = "thrown", !.err = err]
  ELSE [r EXCEPT !.state = "sleeping", !.err = err, !.sleeps = @ + 1,
                 !.onRetries = @ + (IF r.onRetry THEN 1 ELSE 0)]

\* a catch block that retries whatever the error is
RetryOnError_NoClassify(r, err) ==
  IF r.attempt = r.maxAttempts
  THEN [r EXCEPT !.state = "thrown", !.err = err]
  ELSE [r EXCEPT !.state = "sleeping", !.err = err, !.sleeps = @ + 1,
                 !.onRetries = @ + (IF r.onRetry THEN 1 ELSE 0)]

\* a catch block without the `attempt === maxAttempts` test
RetryOnError_NoLastCheck(r, err) ==
  IF ~isRetryableError(err)
  THEN [r EXCEPT !.state = "thrown", !.err = err]
  ELSE [r EXCEPT !.state = "sleeping", !.err = err, !.sleeps = @ + 1,
                 !.onRetries = @ + (IF r.onRetry THEN 1 ELSE 0)]

\* the catch block: rethrow, or onRetry callback and backoff sleep
RetryOnError(r, err) ==
  IF ~isRetryableError(err) \/ r.attempt = r.maxAttempts
  THEN [r EXCEPT !.state = "thrown", !.err = err]
  ELSE [r EXCEPT !.state = "sleeping", !.err = err, !.sleeps = @ + 1,
                 !.onRetries = @ + (IF r.onRetry THEN 1 ELSE 0)]

\* the end of the backoff sleep: attempt++, the loop test, the next `await fn()`;
\* a loop that ends falls off the function, which returns undefined
RetryOnWake(r) ==
  IF r.attempt + 1 <= r.maxAttempts
  THEN [r EXCEPT !.state = "calling", !.attempt = @ + 1, !.calls = @ + 1]
  ELSE [r EXCEPT !.state = "fellthrough", !.attempt = @ + 1]

Min(a, b) == IF a < b THEN a ELSE b

RECURSIVE Pow2(_)
Pow2(n) == IF n = 0 THEN 1 ELSE 2 * Pow2(n - 1)

\* the values Math.floor(Math.random() * 250) is drawn from: both ends
Jitters == {0, JITTER_MS - 1}

\* a backoff that keeps doubling
delayMs_NoCap(attempt, jitter) == RETRY_BASE_DELAY_MS * Pow2(attempt - 1) + jitter

\* the length of the sleep after failed attempt `attempt`
delayMs(attempt, jitter) ==
  Min(RETRY_MAX_DELAY_MS, RETRY_BASE_DELAY_MS * Pow2(attempt - 1)) + jitter

\* fn rejects with err inside retryAsync
Reject(r, err, jitter) ==
  LET c == RetryOnError(r, err)
  IN  [c EXCEPT !.fails = @ + 1, !.last = err,
                !.delayMs = IF c.state = "sleeping" THEN delayMs(r.attempt, jitter) ELSE @]

\* --------------------------------------------------------- buildEngineQueue
Op(action, symbol, quantity, to) ==
  [action |-> action, symbol |-> symbol, quantity |-> quantity, to |-> to]

Token(symbol, balance, stake, pendingUnstake) ==
  [symbol |-> symbol, balance |-> balance, stake |-> stake,
   pendingUnstake |-> pendingUnstake]

\* a loop body with the two pushes swapped
OpsOfToken_TransferFirst(t, dest) ==
  (IF t.balance > 0 THEN <<Op("transfer", t.symbol, t.balance, dest)>> ELSE << >>)
  \o (IF t.stake > 0 /\ t.pendingUnstake = 0
      THEN <<Op("unstake", t.symbol, t.stake, "")>> ELSE << >>)

\* a loop body that does not look at pendingUnstake
OpsOfToken_IgnorePending(t, dest) ==
  (IF t.stake > 0 THEN <<Op("unstake", t.symbol, t.stake, "")>> ELSE << >>)
  \o (IF t.balance > 0 THEN <<Op("transfer", t.symbol, t.balance, dest)>> ELSE << >>)

\* the body of the loop over the token records
OpsOfToken(t, dest) ==
  (IF t.stake > 0 /\ t.pendingUnstake = 0
   THEN <<Op("unstake", t.symbol, t.stake, "")>> ELSE << >>)
  \o (IF t.balance > 0 THEN <<Op("transfer", t.symbol, t.balance, dest)>> ELSE << >>)

RECURSIVE buildEngineQueue(_, _)
buildEngineQueue(tokens, dest) ==
  IF tokens = << >> THEN << >>
  ELSE OpsOfToken(Head(tokens), dest) \o buildEngineQueue(Tail(tokens), dest)

\* ------------------------------------------------------------------ transfer
\* Number.prototype.toFixed(3) of an amount in sub-units, in units of 0.001:
\* the nearest value; an amount exactly half way is not a binary fraction, so
\* the double holding it lies on one side or the other
toFixed3(amount) ==
  LET q == amount \div Sub
      r == amount % Sub
  IN  IF 2 * r < Sub THEN {q}
      ELSE IF 2 * r > Sub THEN {q + 1}
      ELSE {q, q + 1}

\* ------------------------------------------------------------------- state
VARIABLES
  proc,           \* the process: "load", "start" (START section running), "run",
                  \* "exit"; "retry" where retryAsync is called on its own
  mode,           \* what the runtime does with an unhandled rejection: "throw" or "warn"
  kind,           \* per configured account entry: the worker it gets, or "off"
  keyOk,          \* per entry: whether PrivateKey.fromString accepts its key
  RESERVE,        \* per asset: the configured reserve, in sub-units
  STEEM_RPCS,     \* number of entries of the STEEM_RPC list
  ENGINE_APIS,    \* number of entries of the ENGINE_API list
  steemRpcIndex,  \* index of the active Steem endpoint (0-based)
  steemClient,    \* index of the STEEM_RPCS entry steemClient is bound to
  next,           \* position in the account lists of the next worker to start
  worker,         \* per entry: the worker's position and locals
  name,           \* per entry: the account name of the entry
  history,        \* whether what happens across cycles is recorded below
  rotations,      \* calls of rotateSteemRpc so far
  ledger,         \* per entry: the token records the indexing service reports
  chain,          \* per entry: operations the chain accepted, not yet indexed
  unstaking       \* per entry: symbols of the accepted unstakes not yet matured

vars == <<proc, mode, kind, keyOk, name, RESERVE, STEEM_RPCS, ENGINE_APIS,
          steemRpcIndex, steemClient, next, worker,
          history, rotations, ledger, chain, unstaking>>

config == <<mode, kind, keyOk, name, RESERVE, STEEM_RPCS, ENGINE_APIS, history>>

rotator == <<steemRpcIndex, steemClient, rotations>>

remote == <<ledger, chain, unstaking>>

\* A worker before it is started.  pc: "init", "rejected" (the async function
\* threw before its loop), "balances", "transfer", "tokens", "broadcast",
\* "cooldown", "sleep".  The fields from subm on record what the current cycle
\* has done; they are reset when a cycle begins.  posts lists the entries of
\* ENGINE_APIS the cycle's getEngineBalances call has posted to so far, via is
\* the entry of STEEM_RPCS the client of the latest Steem request is bound to,
\* stale the operations that were still queued when the latest cycle was
\* aborted.
Fresh ==
  [pc |-> "init", rt |-> NoCall, urlIdx |-> 0, posts |-> << >>, via |-> 0,
   stale |-> << >>, snap |-> << >>, cur |-> 0,
   queue |-> << >>, slice |-> << >>,
   subm |-> << >>, acked |-> 0, tokens |-> << >>, planned |-> << >>, cooldowns |-> 0,
   sinceCool |-> 0, tries |-> 0, failed |-> "none", err |-> NoErr]

Configured == SelectSeq(Order, LAMBDA w : kind[w] # "off")

\* a rotation that runs past the end of the list
rotateSteemRpc_NoWrap ==
  IF STEEM_RPCS <= 1 THEN UNCHANGED <<steemRpcIndex, steemClient>>
  ELSE /\ steemRpcIndex' = steemRpcIndex + 1
       /\ steemClient' = steemRpcIndex'

rotateSteemRpc ==
  IF STEEM_RPCS <= 1 THEN UNCHANGED <<steemRpcIndex, steemClient>>
  ELSE /\ steemRpcIndex' = (steemRpcIndex + 1) % STEEM_RPCS
       /\ steemClient' = steemRpcIndex'

\* a function that keeps the client it was created with
ClientOfCall_Captured(k, captured) == captured

\* the client a request goes through: the Steem calls read the module-level
\* steemClient when they are made, the other networks have one client
ClientOfCall(k, captured) == IF k = "steem" THEN steemClient ELSE captured

\* the top of `while (true)`: the first remote call of a cycle is in flight
BeginCycle(k) ==
  [Fresh EXCEPT
     !.pc = IF k = "engine" THEN "tokens" ELSE "balances",
     !.rt = IF k = "account" THEN NoCall ELSE RetryStart(0, k = "steem"),
     !.urlIdx = IF k = "engine" THEN 1 ELSE 0,
     !.posts = IF k = "engine" THEN <<1>> ELSE << >>,
     !.via = ClientOfCall(k, 0)]

\* the end of the try block, or its catch: the inter-cycle sleep begins
EndCycle(s) == [s EXCEPT !.pc = "sleep", !.cur = 0, !.queue = << >>, !.slice = << >>]

\* an error that escapes the loop: the async function rejects
ThrowInCycle_Rethrow(s, what, err) ==
  [s EXCEPT !.pc = "rejected", !.failed = what, !.err = err, !.cur = 0,
            !.rt = NoCall, !.urlIdx = 0, !.queue = << >>, !.slice = << >>]

\* an error raised inside the try block: caught, logged, the cycle's locals
\* (the queue among them) are dropped
ThrowInCycle(s, what, err) ==
  [s EXCEPT !.pc = "sleep", !.failed = what, !.err = err, !.cur = 0,
            !.rt = NoCall, !.urlIdx = 0, !.queue = << >>, !.slice = << >>,
            !.stale = (IF s.slice = << >> THEN << >> ELSE Tail(s.slice)) \o s.queue]

\* ------------------------------------------------------------- native sweep
\* a test with >= for >
ShouldSend_AtLeast(k, liquid, reserve) == liquid >= reserve

\* the test guarding a transfer: `hiveSend > 0` in hiveWorker,
\* `balance > RESERVE` in the other workers
ShouldSend(k, liquid, reserve) ==
  IF k = "hive" THEN liquid - reserve > 0 ELSE liquid > reserve

\* the amount handed to transfer(): balance - RESERVE
Surplus(liquid, reserve) == liquid - reserve

\* transfer(): one signed transfer operation is submitted
SubmitTransfer(s, k, i, amt) ==
  [s EXCEPT !.pc = "transfer", !.cur = i, !.tries = 1,
            !.via = IF k = "steem" THEN steemClient ELSE @,
            !.subm = Append(@, Op("native_transfer", AssetsOf(k)[i], amt, DestOf(k)))]

\* only the first asset is ever looked at
NextAsset_FirstOnly(k, snap, from) ==
  IF from = 1 /\ ShouldSend(k, snap[1] * Sub, RESERVE[AssetsOf(k)[1]]) THEN 1 ELSE 0

\* the first asset from position `from` on whose balance passes the test, or 0
NextAsset(k, snap, from) ==
  LET ok == {i \in from..Len(AssetsOf(k)) :
               ShouldSend(k, snap[i] * Sub, RESERVE[AssetsOf(k)[i]])}
  IN  IF ok = {} THEN 0 ELSE CHOOSE i \in ok : \A j \in ok : i <= j

\* accountWorker goes on to the token sweep; the other workers end the cycle
AfterNative(s, k) ==
  IF k = "account" THEN [s EXCEPT !.pc = "tokens", !.cur = 0] ELSE EndCycle(s)

\* the worker's position after the `if (balance > reserve) await transfer(...)`
\* statements from position `from` on
NativeStep(s, k, from) ==
  LET i == NextAsset(k, s.snap, from)
  IN  IF i = 0 THEN {AfterNative(s, k)}
      ELSE {SubmitTransfer(s, k, i, amt) :
              amt \in toFixed3(Surplus(s.snap[i] * Sub, RESERVE[AssetsOf(k)[i]]))}

\* -------------------------------------------------------- processEngineQueue
\* a splice that takes the whole queue
BatchSize_Whole(queue) == Len(queue)

\* queue.splice(0, CUSTOM_JSON_LIMIT) takes this many operations
BatchSize(queue) == Min(CUSTOM_JSON_LIMIT, Len(queue))

\* a slice whose broadcasts are all started at once
StartBatch_AllAtOnce(s) ==
  LET n == BatchSize(s.queue)
      slice == SubSeq(s.queue, 1, n)
  IN  [s EXCEPT !.pc = "broadcast", !.slice = slice,
                !.queue = SubSeq(s.queue, n + 1, Len(s.queue)),
                !.subm = @ \o slice, !.sinceCool = n, !.tries = 1]

\* one turn of the while loop up to its first `await engineBroadcast(...)`
StartBatch(s) ==
  LET n == BatchSize(s.queue)
      slice == SubSeq(s.queue, 1, n)
  IN  [s EXCEPT !.pc = "broadcast", !.slice = slice,
                !.queue = SubSeq(s.queue, n + 1, Len(s.queue)),
                !.subm = Append(@, Head(slice)), !.sinceCool = 1, !.tries = 1]

\* a broadcast has resolved: the next job of the slice, the cooldown before the
\* next batch, or the end of the queue
AfterBroadcast(s) ==
  LET rest == Tail(s.slice)
  IN  IF rest # << >>
      THEN [s EXCEPT !.slice = rest, !.acked = @ + 1, !.tries = 1,
                     !.subm = Append(@, Head(rest)), !.sinceCool = @ + 1]
      ELSE IF s.queue # << >>
      THEN [s EXCEPT !.pc = "cooldown", !.slice = << >>, !.acked = @ + 1,
                     !.cooldowns = @ + 1]
      ELSE EndCycle([s EXCEPT !.acked = @ + 1])

\* a broadcast wrapped in retryAsync
BroadcastError_Retry(s, err) ==
  IF isRetryableError(err) /\ s.tries < RETRY_MAX_ATTEMPTS
  THEN [s EXCEPT !.tries = @ + 1, !.subm = Append(@, Head(s.slice))]
  ELSE ThrowInCycle(s, "broadcast", err)

\* a rejection caught inside the for loop, which goes on with the next job
BroadcastError_SkipJob(s, err) ==
  [AfterBroadcast(s) EXCEPT !.acked = s.acked, !.failed = "broadcast", !.err = err]

\* engineBroadcast has rejected: nothing in processEngineQueue catches it
BroadcastError(s, err) == ThrowInCycle(s, "broadcast", err)

\* a queue that outlives the cycle and is added to
PlanAndDispatch_KeepQueue(s, k, tokens) ==
  LET q == s.stale \o buildEngineQueue(tokens, DestOf(k))
      t == [s EXCEPT !.tokens = tokens, !.planned = q, !.queue = q,
                     !.rt = NoCall, !.urlIdx = 0, !.posts = << >>, !.err = NoErr]
  IN  IF q # << >> THEN StartBatch(t) ELSE EndCycle(t)

\* the token sweep after the balances are in: plan, then dispatch if any
PlanAndDispatch(s, k, tokens) ==
  LET q == buildEngineQueue(tokens, DestOf(k))
      t == [s EXCEPT !.tokens = tokens, !.planned = q, !.queue = q,
                     !.rt = NoCall, !.urlIdx = 0, !.posts = << >>, !.err = NoErr]
  IN  IF q # << >> THEN StartBatch(t) ELSE EndCycle(t)

\* a catch block that goes on to the next endpoint whatever the error is
NextEngineUrl_AnyError(s, err) ==
  IF s.urlIdx < ENGINE_APIS
  THEN [s EXCEPT !.urlIdx = @ + 1, !.posts = Append(@, s.urlIdx + 1),
                 !.rt = RetryStart(0, FALSE), !.err = err]
  ELSE ThrowInCycle(s, "tokens", err)

\* the catch block of getEngineBalances' loop over ENGINE_APIS, entered when
\* retryAsync has thrown err: keep it as lastErr, rethrow a terminal error,
\* go on with the next endpoint, or throw lastErr after the last one
NextEngineUrl(s, err) ==
  IF ~isRetryableError(err) THEN ThrowInCycle(s, "tokens", err)
  ELSE IF s.urlIdx < ENGINE_APIS
  THEN [s EXCEPT !.urlIdx = @ + 1, !.posts = Append(@, s.urlIdx + 1),
                 !.rt = RetryStart(0, FALSE), !.err = err]
  ELSE ThrowInCycle(s, "tokens", err)

\* ------------------------------------------------------------------ startup
IsV2 == \E w \in Workers : kind[w] \in KindsV2

\* The module's top-level statements before the workers are started.  The
\* single-network variant parses every key there (parseAccounts), and an
\* exception at the top level ends the process.
LoadModule ==
  /\ proc = "load"
  /\ proc' = IF IsV2 /\ \E w \in Workers : kind[w] # "off" /\ ~keyOk[w]
             THEN "exit" ELSE "start"
  /\ UNCHANGED <<config, rotator, remote, next, worker>>

\* forEach calls the worker, which runs up to its first await: the key is
\* parsed (multi-network variant) and the first cycle's first call is issued.
\* An exception there rejects the promise the call returns, which nobody holds.
StartWorker(w) ==
  /\ proc = "start"
  /\ next <= Len(Configured)
  /\ w = Configured[next]
  /\ next' = next + 1
  /\ worker' = [worker EXCEPT ![w] =
       IF kind[w] \in KindsV1 /\ ~keyOk[w]
       THEN [Fresh EXCEPT !.pc = "rejected"]
       ELSE BeginCycle(kind[w])]
  /\ UNCHANGED <<config, proc, rotator, remote>>

\* The end of the main script: unhandled rejections are processed before any
\* I/O completes.
EndStartup ==
  /\ proc = "start"
  /\ next > Len(Configured)
  /\ proc' = IF mode = "throw" /\ \E w \in Workers : worker[w].pc = "rejected"
             THEN "exit" ELSE "run"
  /\ UNCHANGED <<config, rotator, remote, next, worker>>

\* ------------------------------------------------------------ worker steps
Set(w, s) == worker' = [worker EXCEPT ![w] = s]

\* getAccounts answers with the account's record; bal is its balances in
\* units of 0.001, one per asset of the worker
BalancesOk(w, bal) ==
  /\ proc = "run"
  /\ worker[w].pc = "balances"
  /\ kind[w] = "account" \/ worker[w].rt.state = "calling"
  /\ Len(bal) = Len(AssetsOf(kind[w]))
  /\ LET s == [worker[w] EXCEPT !.snap = bal, !.rt = NoCall]
     IN  \E t \in NativeStep(s, kind[w], 1) : Set(w, t)
  /\ UNCHANGED <<config, proc, rotator, remote, next>>

\* getAccounts answers with an empty list: `acc.balance` throws a TypeError
\* outside retryAsync
BalancesNoAccount(w) ==
  /\ proc = "run"
  /\ worker[w].pc = "balances"
  /\ kind[w] = "account" \/ worker[w].rt.state = "calling"
  /\ Set(w, ThrowInCycle(worker[w], "balances", NoErr))
  /\ UNCHANGED <<config, proc, rotator, remote, next>>

\* getAccounts rejects: retryAsync's catch block (getSteemBalances passes
\* rotateSteemRpc as onRetry); accountWorker calls the client directly
BalancesFail(w, err) ==
  /\ proc = "run"
  /\ worker[w].pc = "balances"
  /\ IF kind[w] = "account"
     THEN /\ Set(w, ThrowInCycle(worker[w], "balances", err))
          /\ UNCHANGED rotator
     ELSE /\ worker[w].rt.state = "calling"
          /\ \E jitter \in Jitters :
               LET r == Reject(worker[w].rt, err, jitter)
                   s == [worker[w] EXCEPT !.rt = r]
               IN  /\ Set(w, IF r.state = "thrown"
                             THEN ThrowInCycle(s, "balances", err) ELSE s)
                   /\ IF r.onRetries > worker[w].rt.onRetries
                      THEN /\ history => rotations < MaxRotations
                           /\ rotateSteemRpc
                           /\ rotations' = IF history THEN rotations + 1 ELSE rotations
                      ELSE UNCHANGED rotator
  /\ UNCHANGED <<config, proc, remote, next>>

\* the backoff sleep of retryAsync ends
BackoffWake(w) ==
  /\ proc = "run"
  /\ worker[w].pc \in {"balances", "tokens"}
  /\ worker[w].rt.state = "sleeping"
  /\ Set(w, [worker[w] EXCEPT
              !.rt = RetryOnWake(@),
              !.via = ClientOfCall(kind[w], @),
              !.posts = IF worker[w].pc = "tokens" THEN Append(@, worker[w].urlIdx) ELSE @])
  /\ UNCHANGED <<config, proc, rotator, remote, next>>

\* client.broadcast.transfer resolves
TransferOk(w) ==
  /\ proc = "run"
  /\ worker[w].pc = "transfer"
  /\ LET s == [worker[w] EXCEPT !.acked = @ + 1]
     IN  \E t \in NativeStep(s, kind[w], s.cur + 1) : Set(w, t)
  /\ UNCHANGED <<config, proc, rotator, remote, next>>

\* client.broadcast.transfer rejects
TransferFail(w, err) ==
  /\ proc = "run"
  /\ worker[w].pc = "transfer"
  /\ Set(w, ThrowInCycle(worker[w], "transfer", err))
  /\ UNCHANGED <<config, proc, rotator, remote, next>>

\* the token ledger answers with the account's token records
TokensOk(w, tokens) ==
  /\ proc = "run"
  /\ worker[w].pc = "tokens"
  /\ kind[w] = "account" \/ worker[w].rt.state = "calling"
  /\ Set(w, PlanAndDispatch(worker[w], kind[w], tokens))
  /\ UNCHANGED <<config, proc, rotator, remote, next>>

\* the token ledger request fails.  getEngineBalances (multi-network variant)
\* retries each endpoint of ENGINE_APIS and moves to the next one when the
\* retries are used up; the single-network variant posts once.
TokensFail(w, err) ==
  /\ proc = "run"
  /\ worker[w].pc = "tokens"
  /\ IF kind[w] = "account"
     THEN Set(w, ThrowInCycle(worker[w], "tokens", err))
     ELSE /\ worker[w].rt.state = "calling"
          /\ \E jitter \in Jitters :
               LET r == Reject(worker[w].rt, err, jitter)
                   s == [worker[w] EXCEPT !.rt = r]
               IN  Set(w, IF r.state # "thrown" THEN s ELSE NextEngineUrl(s, err))
  /\ UNCHANGED <<config, proc, rotator, remote, next>>

\* the chain takes an operation whose broadcast resolved
Accepted(w, op) ==
  /\ Len(chain[w]) < MaxChain
  /\ chain' = [chain EXCEPT ![w] = Append(@, op)]
  /\ unstaking' = [unstaking EXCEPT ![w] =
                     IF op.action = "unstake" THEN Append(@, op.symbol) ELSE @]
  /\ UNCHANGED ledger

\* hiveClient.broadcast.json resolves
BroadcastOk(w) ==
  /\ proc = "run"
  /\ worker[w].pc = "broadcast"
  /\ Set(w, AfterBroadcast(worker[w]))
  /\ IF history THEN Accepted(w, worker[w].subm[Len(worker[w].subm)]) ELSE UNCHANGED remote
  /\ UNCHANGED <<config, proc, rotator, next>>

\* hiveClient.broadcast.json rejects
BroadcastFail(w, err) ==
  /\ proc = "run"
  /\ worker[w].pc = "broadcast"
  /\ Set(w, BroadcastError(worker[w], err))
  /\ UNCHANGED <<config, proc, rotator, remote, next>>

\* delay(COOLDOWN_MS) ends: the while loop takes the next batch
CooldownWake(w) ==
  /\ proc = "run"
  /\ worker[w].pc = "cooldown"
  /\ Set(w, StartBatch(worker[w]))
  /\ UNCHANGED <<config, proc, rotator, remote, next>>

\* delay(MAIN_LOOP_DELAY) ends: the next cycle
SleepWake(w) ==
  /\ proc = "run"
  /\ worker[w].pc = "sleep"
  /\ Set(w, [BeginCycle(kind[w]) EXCEPT
              !.stale = IF history /\ worker[w].failed # "none" THEN worker[w].stale ELSE << >>])
  /\ UNCHANGED <<config, proc, rotator, remote, next>>

\* --------------------------------------------------------- the token ledger
\* The sidechain and its indexing service, as far as the workers see them: a
\* broadcast that resolved was accepted; the indexing service applies the
\* accepted operations one by one, later; an unstake that was applied shows
\* as pendingUnstake until it matures.  A worker sees the ledger only when it
\* reads it, once per cycle, so a maturation or a withdrawal by the owner is
\* placed in the worker's inter-cycle sleep: whatever the moment between two
\* reads it happens at, the next read gives the same records.
ApplyOp(t, op) ==
  IF t.symbol # op.symbol THEN t
  ELSE IF op.action = "transfer"
  THEN (IF t.balance >= op.quantity THEN [t EXCEPT !.balance = @ - op.quantity] ELSE t)
  ELSE (IF t.stake - t.pendingUnstake >= op.quantity
        THEN [t EXCEPT !.pendingUnstake = @ + op.quantity] ELSE t)

RECURSIVE RemoveOne(_, _)
RemoveOne(q, x) ==
  IF q = << >> THEN << >>
  ELSE IF Head(q) = x THEN Tail(q) ELSE <<Head(q)>> \o RemoveOne(Tail(q), x)

\* the indexing service applies the oldest accepted operation; an unstake it
\* turns down is no longer under way
IndexOp(w) ==
  /\ proc = "run"
  /\ history
  /\ chain[w] # << >>
  /\ LET op == Head(chain[w])
         after == [i \in 1..Len(ledger[w]) |-> ApplyOp(ledger[w][i], op)]
     IN  /\ ledger' = [ledger EXCEPT ![w] = after]
         /\ chain' = [chain EXCEPT ![w] = Tail(@)]
         /\ unstaking' = [unstaking EXCEPT ![w] =
                            IF op.action = "unstake" /\ after = ledger[w]
                            THEN RemoveOne(@, op.symbol) ELSE @]
  /\ UNCHANGED <<config, proc, rotator, next, worker>>

\* a pending unstake matures: the stake becomes liquid
Mature(w, i) ==
  /\ proc = "run"
  /\ history
  /\ worker[w].pc = "sleep"
  /\ i \in 1..Len(ledger[w])
  /\ ledger[w][i].pendingUnstake > 0
  /\ ledger' = [ledger EXCEPT ![w][i] =
                  [@ EXCEPT !.balance = @ + ledger[w][i].pendingUnstake,
                            !.stake = @ - ledger[w][i].pendingUnstake,
                            !.pendingUnstake = 0]]
  /\ unstaking' = [unstaking EXCEPT ![w] = RemoveOne(@, ledger[w][i].symbol)]
  /\ UNCHANGED <<config, proc, rotator, next, worker, chain>>

\* the account's owner moves a liquid balance away by hand
OwnerSpends(w, i) ==
  /\ proc = "run"
  /\ history
  /\ worker[w].pc = "sleep"
  /\ i \in 1..Len(ledger[w])
  /\ ledger[w][i].balance > 0
  /\ ledger' = [ledger EXCEPT ![w][i] = [@ EXCEPT !.balance = 0]]
  /\ UNCHANGED <<config, proc, rotator, next, worker, chain, unstaking>>

\* ------------------------------------------------------- the retryAsync call
\* retryAsync on its own: worker "w1"'s frame holds one call, whose function
\* resolves or rejects as the environment decides.
RetryFnOk ==
  /\ proc = "retry"
  /\ worker["w1"].rt.state = "calling"
  /\ Set("w1", [worker["w1"] EXCEPT !.rt = RetryOnSuccess(@)])
  /\ UNCHANGED <<config, proc, rotator, remote, next>>

RetryFnFail(err) ==
  /\ proc = "retry"
  /\ worker["w1"].rt.state = "calling"
  /\ \E jitter \in Jitters : Set("w1", [worker["w1"] EXCEPT !.rt = Reject(@, err, jitter)])
  /\ UNCHANGED <<config, proc, rotator, remote, next>>

RetrySleepDone ==
  /\ proc = "retry"
  /\ worker["w1"].rt.state = "sleeping"
  /\ Set("w1", [worker["w1"] EXCEPT !.rt = RetryOnWake(@)])
  /\ UNCHANGED <<config, proc, rotator, remote, next>>

\* ------------------------------------------------------------ input domains
KindRank(k) ==
  CASE k \in {"hive", "account"} -> 1
    [] k = "engine" -> 2
    [] k = "steem" -> 3
    [] k = "blurt" -> 4
    [] OTHER -> 5

\* the account entries in the order the START section walks the lists
KindConfigs(S) ==
  {f \in [Workers -> S \cup {"off"}] :
     f["w1"] # "off" /\ KindRank(f["w1"]) <= KindRank(f["w2"])}

Uses(f, a) == \E w \in Workers : \E i \in 1..Len(AssetsOf(f[w])) : AssetsOf(f[w])[i] = a

UsedAssets(f) == {a \in Assets : Uses(f, a)}

\* reserves of the assets in use drawn from S; no reserve set for the others
ReserveConfigs(f, S) ==
  {[a \in Assets |-> IF a \in UsedAssets(f) THEN g[a] ELSE 0] :
     g \in [UsedAssets(f) -> S]}

DefaultReserves(f) ==
  [a \in Assets |->
     IF a \in UsedAssets(f) /\ \E w \in Workers : f[w] = "account" THEN Sub ELSE 0]

\* balances of one or two assets, each from S (units of 0.001)
Balances(S) == [1..1 -> S] \cup [1..2 -> S]

Symbols == <<"BEE", "LEO", "SWAP", "DEC", "SPS", "PAL", "NEOXAG", "WEED">>
SymbolOf(i) == IF i <= Len(Symbols) THEN Symbols[i] ELSE "TOKEN"

TokenShapes ==
  {[balance |-> b, stake |-> k, pendingUnstake |-> p] :
     b \in {0, 10}, k \in {0, 5}, p \in {0, 1}}

\* longest token list whose records take every shape
MaxShaped == 3

\* token lists: one record per symbol
ShapedLists ==
  UNION {{[i \in 1..n |-> Token(SymbolOf(i), f[i].balance, f[i].stake, f[i].pendingUnstake)] :
            f \in [1..n -> TokenShapes]} : n \in 0..MaxShaped}

LongLists ==
  {[i \in 1..n |-> Token(SymbolOf(i), 10, IF i <= m THEN 5 ELSE 0, 0)] :
     n \in (MaxShaped + 1)..MaxTokens, m \in 0..MaxTokens}

FewLists == {<< >>, [i \in 1..3 |-> Token(SymbolOf(i), 10, 5, 0)]}

\* ----------------------------------------------------------- specifications
\* every entry has an account of its own
OwnNames == [w \in Workers |-> IF w = "w1" THEN "alice" ELSE "bob"]

\* the token ledger left open: every answer is an input
NoRemote ==
  /\ ledger = [w \in Workers |-> << >>]
  /\ chain = [w \in Workers |-> << >>]
  /\ unstaking = [w \in Workers |-> << >>]

InitWith(kinds, reserves) ==
  /\ proc = "load"
  /\ kind \in kinds
  /\ keyOk \in [Workers -> BOOLEAN]
  /\ \A w \in Workers : kind[w] = "off" => keyOk[w]
  /\ mode \in IF \A w \in Workers : keyOk[w] THEN {"throw"} ELSE {"throw", "warn"}
  /\ RESERVE \in ReserveConfigs(kind, reserves)
  /\ STEEM_RPCS \in 1..MaxRpcs
  /\ (\A w \in Workers : kind[w] # "steem") => STEEM_RPCS = 1
  /\ ENGINE_APIS \in 1..MaxRpcs
  /\ (\A w \in Workers : kind[w] # "engine") => ENGINE_APIS = 1
  /\ steemRpcIndex = 0
  /\ steemClient = 0
  /\ next = 1
  /\ worker = [w \in Workers |-> Fresh]
  /\ history = FALSE
  /\ name = OwnNames
  /\ rotations = 0
  /\ NoRemote

Startup ==
  \/ LoadModule
  \/ \E w \in Workers : StartWorker(w)
  \/ EndStartup

\* two account entries, any workers, few data
Init ==
  /\ InitWith({f \in KindConfigs(KindsV1) \cup KindConfigs(KindsV2) : f["w2"] # "off"},
              {0, Sub})
  /\ RESERVE = DefaultReserves(kind)

Next ==
  \/ Startup
  \/ \E w \in Workers :
       \/ \E bal \in Balances({0, MaxBal}) : BalancesOk(w, bal)
       \/ BalancesNoAccount(w)
       \/ \E err \in FewErrors : BalancesFail(w, err)
       \/ BackoffWake(w)
       \/ TransferOk(w)
       \/ \E err \in FewErrors : TransferFail(w, err)
       \/ \E tokens \in FewLists : TokensOk(w, tokens)
       \/ \E err \in FewErrors : TokensFail(w, err)
       \/ BroadcastOk(w)
       \/ \E err \in FewErrors : BroadcastFail(w, err)
       \/ CooldownWake(w)
       \/ SleepWake(w)

Spec == Init /\ [][Next]_vars

\* one native worker, every balance and reserve
InitNative ==
  InitWith({f \in KindConfigs({"hive", "steem", "blurt"}) : f["w2"] = "off"},
           0..MaxReserve)

NextNative ==
  \/ Startup
  \/ \E w \in Workers :
       \/ \E bal \in Balances(0..MaxBal) : BalancesOk(w, bal)
       \/ BalancesNoAccount(w)
       \/ \E err \in Errors : BalancesFail(w, err)
       \/ BackoffWake(w)
       \/ TransferOk(w)
       \/ \E err \in FewErrors : TransferFail(w, err)
       \/ SleepWake(w)

SpecNative == InitNative /\ [][NextNative]_vars

\* one worker with a token sweep, every token list
InitEngine ==
  /\ InitWith({f \in KindConfigs({"engine"}) \cup KindConfigs({"account"}) : f["w2"] = "off"},
              {0, Sub})
  /\ RESERVE = DefaultReserves(kind)

NextEngine ==
  \/ Startup
  \/ \E w \in Workers :
       \/ \E bal \in Balances({0, MaxBal}) : BalancesOk(w, bal)
       \/ BalancesNoAccount(w)
       \/ \E err \in FewErrors : BalancesFail(w, err)
       \/ BackoffWake(w)
       \/ TransferOk(w)
       \/ \E err \in FewErrors : TransferFail(w, err)
       \/ /\ worker[w].pc = "tokens"
          /\ \E tokens \in ShapedLists \cup LongLists : TokensOk(w, tokens)
       \/ \E err \in Errors : TokensFail(w, err)
       \/ BroadcastOk(w)
       \/ \E err \in FewErrors : BroadcastFail(w, err)
       \/ CooldownWake(w)
       \/ SleepWake(w)

SpecEngine == InitEngine /\ [][NextEngine]_vars

\* Steem workers sharing the endpoint rotation, every length of STEEM_RPC
InitSteem ==
  /\ proc = "load"
  /\ kind \in KindConfigs({"steem"})
  /\ keyOk = [w \in Workers |-> TRUE]
  /\ mode = "throw"
  /\ RESERVE = DefaultReserves(kind)
  /\ STEEM_RPCS \in 0..MaxSteemRpcs
  /\ ENGINE_APIS = 1
  /\ steemRpcIndex = 0
  /\ steemClient = 0
  /\ next = 1
  /\ worker = [w \in Workers |-> Fresh]
  /\ history = TRUE
  /\ name = OwnNames
  /\ rotations = 0
  /\ NoRemote

NextSteem ==
  \/ Startup
  \/ \E w \in Workers :
       \/ \E bal \in Balances({0, MaxBal}) : BalancesOk(w, bal)
       \/ BalancesNoAccount(w)
       \/ \E err \in FewErrors : BalancesFail(w, err)
       \/ BackoffWake(w)
       \/ TransferOk(w)
       \/ \E err \in FewErrors : TransferFail(w, err)
       \/ SleepWake(w)

SpecSteem == InitSteem /\ [][NextSteem]_vars

\* the ledgers followed across cycles are those whose sweep fits in one
\* batch: two operations per token at most
LedgerTokens == CUSTOM_JSON_LIMIT \div 2

\* token records as a ledger starts with them: liquid and staked, staked
\* only, liquid only
LedgerLists ==
  UNION {{[i \in 1..n |-> Token(SymbolOf(i), f[i][1], f[i][2], 0)] :
            f \in [1..n -> {<<10, 5>>, <<0, 5>>, <<10, 0>>}]} : n \in 1..LedgerTokens}

\* one worker with a token sweep and the ledger it sweeps, across cycles
InitLedger ==
  /\ proc = "load"
  /\ kind \in {f \in KindConfigs({"engine"}) \cup KindConfigs({"account"}) : f["w2"] = "off"}
  /\ keyOk = [w \in Workers |-> TRUE]
  /\ mode = "throw"
  /\ RESERVE = DefaultReserves(kind)
  /\ STEEM_RPCS = 1
  /\ ENGINE_APIS = 1
  /\ steemRpcIndex = 0
  /\ steemClient = 0
  /\ next = 1
  /\ worker = [w \in Workers |-> Fresh]
  /\ history = TRUE
  /\ name = OwnNames
  /\ rotations = 0
  /\ \E l \in LedgerLists : ledger = [w \in Workers |-> IF w = "w1" THEN l ELSE << >>]
  /\ chain = [w \in Workers |-> << >>]
  /\ unstaking = [w \in Workers |-> << >>]

NextLedger ==
  \/ Startup
  \/ \E w \in Workers :
       \/ \E bal \in Balances({MaxBal}) : BalancesOk(w, bal)
       \/ BalancesNoAccount(w)
       \/ \E err \in FewErrors : BalancesFail(w, err)
       \/ BackoffWake(w)
       \/ TransferOk(w)
       \/ \E err \in FewErrors : TransferFail(w, err)
       \/ TokensOk(w, ledger[w])
       \/ \E err \in FewErrors : TokensFail(w, err)
       \/ BroadcastOk(w)
       \/ \E err \in FewErrors : BroadcastFail(w, err)
       \/ SleepWake(w)
       \/ IndexOp(w)
       \/ \E i \in 1..LedgerTokens : Mature(w, i)
       \/ \E i \in 1..LedgerTokens : OwnerSpends(w, i)

SpecLedger == InitLedger /\ [][NextLedger]_vars

\* a Hive worker and a Hive Engine worker, for one account or for two
InitShared ==
  /\ proc = "load"
  /\ kind = [w \in Workers |-> IF w = "w1" THEN "hive" ELSE "engine"]
  /\ keyOk = [w \in Workers |-> TRUE]
  /\ mode = "throw"
  /\ name \in {OwnNames, [w \in Workers |-> "alice"]}
  /\ RESERVE = DefaultReserves(kind)
  /\ STEEM_RPCS = 1
  /\ ENGINE_APIS = 1
  /\ steemRpcIndex = 0
  /\ steemClient = 0
  /\ next = 1
  /\ worker = [w \in Workers |-> Fresh]
  /\ history = FALSE
  /\ rotations = 0
  /\ NoRemote

SpecShared == InitShared /\ [][Next]_vars

\* one call of retryAsync, every maxAttempts option, with and without onRetry
InitRetry ==
  /\ proc = "retry"
  /\ kind = [w \in Workers |-> "off"]
  /\ keyOk = [w \in Workers |-> TRUE]
  /\ mode = "throw"
  /\ RESERVE = [a \in Assets |-> 0]
  /\ STEEM_RPCS = 1
  /\ ENGINE_APIS = 1
  /\ steemRpcIndex = 0
  /\ steemClient = 0
  /\ history = FALSE
  /\ name = OwnNames
  /\ rotations = 0
  /\ NoRemote
  /\ next = 1
  /\ \E opt \in 0..MaxAttemptsOpt, cb \in BOOLEAN :
       worker = [w \in Workers |->
                   IF w = "w1" THEN [Fresh EXCEPT !.rt = RetryStart(opt, cb)] ELSE Fresh]

NextRetry ==
  \/ RetryFnOk
  \/ \E err \in Errors : RetryFnFail(err)
  \/ RetrySleepDone

SpecRetry == InitRetry /\ [][NextRetry]_vars

\* ------------------------------------------------------------------ claims
Frame == worker["w1"].rt

\* C6: a call of retryAsync whose function rejects with retryable errors k
\* times, k < maxAttempts, and then resolves returns: it is never thrown out
\* of while fewer than maxAttempts retryable rejections have happened, and
\* when it has returned it has invoked the function k+1 times and slept k times.
C6_ReturnsAfterKFailures ==
  /\ Frame.state = "returned" =>
       /\ Frame.fails < Frame.maxAttempts
       /\ Frame.calls = Frame.fails + 1
       /\ Frame.sleeps = Frame.fails
  /\ (Frame.fails < Frame.maxAttempts /\ Frame.last \in {NoErr, E503, EReset, EHangUp, EUnavailable})
       => Frame.state \in {"calling", "sleeping", "returned"}

\* 503 twice, then 200, under the default maxAttempts
C6_Witness ==
  /\ Frame.state = "returned"
  /\ Frame.maxAttempts = RETRY_MAX_ATTEMPTS
  /\ Frame.fails = 2
  /\ Frame.sleeps = 2
  /\ Frame.last = E503

\* C7: a rejection that is terminal (HTTP 404, or an error with no status, no
\* network code and no matching message) is propagated at once: the call is
\* thrown out of with that error, with no sleep and no onRetry after it; when
\* it is the first rejection there was one invocation, no sleep, no onRetry.
C7_TerminalPropagatesAtOnce ==
  (Frame.fails >= 1 /\ Frame.last \in {E404, EAuth}) =>
    /\ Frame.state = "thrown"
    /\ Frame.err = Frame.last
    /\ Frame.calls = Frame.fails
    /\ Frame.sleeps = Frame.fails - 1
    /\ Frame.onRetries = IF Frame.onRetry THEN Frame.fails - 1 ELSE 0

C7_Witness ==
  /\ Frame.state = "thrown"
  /\ Frame.last = E404
  /\ Frame.onRetry
  /\ Frame.calls = 1
  /\ Frame.sleeps = 0
  /\ Frame.onRetries = 0

\* C8: retryAsync invokes the function at most maxAttempts times and never
\* falls off its loop; thrown out of with a retryable error, it has made
\* maxAttempts invocations, maxAttempts - 1 sleeps and as many onRetry calls,
\* none after the last rejection, whose error it propagates.
C8_BoundedAttempts ==
  /\ Frame.calls <= Frame.maxAttempts
  /\ Frame.state # "fellthrough"
  /\ Frame.state \in {"returned", "thrown"} \/ Frame.calls = Frame.attempt
  /\ (Frame.state = "thrown" /\ Frame.last \in {E503, EReset, EHangUp, EUnavailable}) =>
       /\ Frame.err = Frame.last
       /\ Frame.fails = Frame.maxAttempts
       /\ Frame.calls = Frame.maxAttempts
       /\ Frame.sleeps = Frame.maxAttempts - 1
       /\ Frame.onRetries = IF Frame.onRetry THEN Frame.maxAttempts - 1 ELSE 0

C8_Witness ==
  /\ Frame.state = "thrown"
  /\ Frame.maxAttempts = RETRY_MAX_ATTEMPTS
  /\ Frame.onRetry
  /\ Frame.last = EReset
  /\ Frame.calls = 3
  /\ Frame.sleeps = 2
  /\ Frame.onRetries = 2

\* what a worker's cycle has submitted as token operations
EngineSubm(s) == SelectSeq(s.subm, LAMBDA o : o.action # "native_transfer")

PosOf(q, action, symbol) ==
  {i \in 1..Len(q) : q[i].action = action /\ q[i].symbol = symbol}

Abs(x) == IF x < 0 THEN -x ELSE x

InLoop(w) == worker[w].pc \notin {"init", "rejected"}

\* C10: the queue planned from a list of token records holds, per record, one
\* Unstake(symbol, stake) exactly when stake > 0 and pendingUnstake = 0 and one
\* Transfer(symbol, balance, destination) exactly when balance > 0, the Unstake
\* first, the records' operations in the order of the records, and nothing else.
C10_QueueOfTokens ==
  \A w \in Workers :
    LET q == worker[w].planned
        ts == worker[w].tokens
        U(i) == PosOf(q, "unstake", ts[i].symbol)
        T(i) == PosOf(q, "transfer", ts[i].symbol)
    IN  /\ \A i \in 1..Len(ts) :
             /\ Cardinality(U(i)) =
                  IF ts[i].stake > 0 /\ ts[i].pendingUnstake = 0 THEN 1 ELSE 0
             /\ Cardinality(T(i)) = IF ts[i].balance > 0 THEN 1 ELSE 0
             /\ \A u \in U(i) : q[u].quantity = ts[i].stake
             /\ \A t \in T(i) : q[t].quantity = ts[i].balance /\ q[t].to = DestOf(kind[w])
             /\ \A u \in U(i), t \in T(i) : u < t
             /\ \A j \in (i + 1)..Len(ts) :
                  \A a \in U(i) \cup T(i), b \in U(j) \cup T(j) : a < b
        /\ \A p \in 1..Len(q) :
             /\ q[p].action \in {"unstake", "transfer"}
             /\ \E i \in 1..Len(ts) : q[p].symbol = ts[i].symbol

C10_Witness ==
  \E w \in Workers :
    /\ worker[w].tokens = <<Token("BEE", 10, 5, 0)>>
    /\ worker[w].planned = <<Op("unstake", "BEE", 5, ""),
                             Op("transfer", "BEE", 10, DestOf(kind[w]))>>

\* C3: processEngineQueue never has more than CUSTOM_JSON_LIMIT broadcasts
\* since the last cooldown; the j-th operation is submitted after (j-1) div N
\* cooldowns; a cooldown is always followed by another batch; and a queue of L
\* operations whose broadcasts all succeed ends after ceil(L/N) - 1 cooldowns
\* (none when L <= N).
C3_BatchesAndCooldowns ==
  \A w \in Workers :
    LET s == worker[w]
        L == Len(s.planned)
        j == Len(EngineSubm(s))
        N == CUSTOM_JSON_LIMIT
    IN  /\ s.sinceCool <= N
        /\ s.pc = "broadcast" =>
             /\ s.cooldowns = (j - 1) \div N
             /\ s.sinceCool = ((j - 1) % N) + 1
        /\ s.pc = "cooldown" => s.queue # << >> /\ j < L /\ s.cooldowns = j \div N
        /\ (s.pc = "sleep" /\ s.failed = "none" /\ s.tokens # << >>) =>
             /\ j = L
             /\ s.cooldowns = IF L <= N THEN 0 ELSE ((L + N - 1) \div N) - 1

\* 12 operations: batches of 5, 5 and 2, two cooldowns
C3_Witness ==
  \E w \in Workers :
    /\ worker[w].pc = "sleep"
    /\ worker[w].failed = "none"
    /\ Len(worker[w].planned) = 12
    /\ Len(EngineSubm(worker[w])) = 12
    /\ worker[w].cooldowns = 2

\* C4 as stated: a cycle is aborted by a retryable broadcast error only after
\* the operation has been submitted the maximum number of attempts.
C4_BroadcastRetried ==
  \A w \in Workers :
    (worker[w].failed = "broadcast" /\ isRetryableError(worker[w].err))
      => worker[w].tries = RETRY_MAX_ATTEMPTS

\* C4, amended: every queued operation is submitted once, directly: whatever
\* error a broadcast fails with, retryable or not, the operation is not
\* submitted again and the cycle is aborted after that one attempt.
C4_BroadcastOnce ==
  \A w \in Workers :
    LET s == worker[w]
        j == Len(EngineSubm(s))
    IN  /\ s.tries <= 1
        /\ EngineSubm(s) = SubSeq(s.planned, 1, j)
        /\ s.failed = "broadcast" =>
             /\ s.pc = "sleep"
             /\ s.tries = 1
             /\ j = s.acked - (Len(s.subm) - j) + 1

C4_Witness ==
  \E w \in Workers :
    /\ worker[w].failed = "broadcast"
    /\ worker[w].err = E503
    /\ worker[w].tries = 1
    /\ Len(EngineSubm(worker[w])) = 3
    /\ Len(worker[w].planned) = 6

\* C5: when the broadcast of operation i of the queue fails, the worker is in
\* its inter-cycle sleep with the rest of the queue dropped, exactly the
\* operations 1..i have been submitted and 1..i-1 broadcast, no cooldown has
\* been added after the failure, and nothing more is submitted in that cycle:
\* the worker's next step begins a new cycle.
C5_Aborted(w) ==
  LET s == worker[w]
      i == Len(EngineSubm(s))
  IN  s.failed = "broadcast" =>
        /\ s.pc = "sleep"
        /\ s.queue = << >> /\ s.slice = << >>
        /\ i >= 1
        /\ EngineSubm(s) = SubSeq(s.planned, 1, i)
        /\ s.acked = Len(s.subm) - 1
        /\ s.cooldowns = (i - 1) \div CUSTOM_JSON_LIMIT

C5_AbortsRestOfQueue ==
  /\ [](\A w \in Workers : C5_Aborted(w))
  /\ [][\A w \in Workers :
          worker[w].failed = "broadcast" =>
            worker'[w] \in {worker[w], BeginCycle(kind[w])}]_vars

\* the 7th of 8 operations fails: one cooldown, 6 broadcast, the 8th dropped
C5_Witness ==
  \E w \in Workers :
    /\ worker[w].failed = "broadcast"
    /\ Len(worker[w].planned) = 8
    /\ Len(EngineSubm(worker[w])) = 7
    /\ worker[w].cooldowns = 1
    /\ worker[w].pc = "sleep"

\* C9: in a cycle of a native worker whose balance fetch succeeded, no
\* transfer of an asset is submitted when liquid <= reserve, at most one when
\* liquid > reserve, and a transfer names the configured destination and the
\* 3-decimal amount nearest to liquid - reserve.
C9_NativeSweep ==
  \A w \in Workers :
    LET s == worker[w]
        as == AssetsOf(kind[w])
    IN  /\ \A p \in 1..Len(s.subm) :
             s.subm[p].action = "native_transfer" =>
               \E i \in 1..Len(as) : as[i] = s.subm[p].symbol /\ s.snap # << >>
        /\ s.snap # << >> =>
             \A i \in 1..Len(as) :
               LET liquid == s.snap[i] * Sub
                   reserve == RESERVE[as[i]]
                   T == PosOf(s.subm, "native_transfer", as[i])
               IN  /\ liquid <= reserve => T = {}
                   /\ Cardinality(T) <= 1
                   /\ \A p \in T :
                        /\ s.subm[p].to = DestOf(kind[w])
                        /\ 2 * Abs(s.subm[p].quantity * Sub - (liquid - reserve)) <= Sub

\* balance 0.002, reserve 0.001: Transfer(0.001 HIVE); HBD below its reserve
C9_Witness ==
  \E w \in Workers :
    /\ kind[w] = "hive"
    /\ RESERVE["HIVE"] = Sub
    /\ RESERVE["HBD"] = Sub + 1
    /\ worker[w].snap = <<2, 1>>
    /\ worker[w].subm = <<Op("native_transfer", "HIVE", 1, "DEST_HIVE_NATIVE")>>
    /\ worker[w].pc = "sleep"
    /\ worker[w].failed = "none"

\* the steps worker w can take
WorkerStep(w) ==
  \/ \E bal \in Balances({0, MaxBal}) : BalancesOk(w, bal)
  \/ BalancesNoAccount(w)
  \/ \E err \in FewErrors : BalancesFail(w, err)
  \/ BackoffWake(w)
  \/ TransferOk(w)
  \/ \E err \in FewErrors : TransferFail(w, err)
  \/ \E tokens \in FewLists : TokensOk(w, tokens)
  \/ \E err \in FewErrors : TokensFail(w, err)
  \/ BroadcastOk(w)
  \/ \E err \in FewErrors : BroadcastFail(w, err)
  \/ CooldownWake(w)
  \/ SleepWake(w)

\* C1: an error raised in a worker's cycle is caught in the cycle: the step
\* that raises it puts the worker in its inter-cycle sleep and submits
\* nothing, the worker stays there with nothing more submitted until the sleep
\* ends, and the end of the sleep begins a new cycle; a worker that has
\* entered its loop never leaves it and always has a next step.
C1_CycleErrorsCaught ==
  /\ [](\A w \in Workers :
          /\ worker[w].failed # "none" => worker[w].pc = "sleep"
          /\ (proc = "run" /\ InLoop(w)) => ENABLED WorkerStep(w))
  /\ [][\A w \in Workers :
          /\ InLoop(w) => InLoop(w)'
          /\ (worker[w].failed = "none" /\ worker'[w].failed # "none") =>
               /\ worker'[w].pc = "sleep"
               /\ worker'[w].subm = worker[w].subm
          /\ worker[w].pc = "sleep" =>
               worker'[w] \in {worker[w], BeginCycle(kind[w])}]_vars

\* both workers asleep after a failed cycle, one after a partial dispatch
C1_Witness ==
  /\ proc = "run"
  /\ worker["w1"].pc = "sleep" /\ worker["w1"].failed = "balances"
  /\ worker["w1"].err = E503
  /\ worker["w2"].pc = "sleep" /\ worker["w2"].failed = "broadcast"
  /\ worker["w2"].acked >= 1

\* C2 as stated: whatever happens to another account's worker, once the START
\* section has run every account whose own key parses has a worker running
\* its cycles in a live process.
C2_AccountsIsolated ==
  \A b \in Workers :
    (proc \notin {"load", "start"} /\ kind[b] # "off" /\ keyOk[b]) =>
      proc = "run" /\ InLoop(b)

\* C14: a worker has at most one broadcast in flight; the token operations
\* submitted so far are the first ones of the planned queue, in its order,
\* each submitted once, and all but the one in flight (or the one that
\* failed) have been broadcast; when processEngineQueue completes without
\* error the whole queue has been broadcast and the queue is empty.
C14_SequentialFifo ==
  \A w \in Workers :
    LET s == worker[w]
        j == Len(EngineSubm(s))
        open == Len(s.subm) - s.acked
    IN  /\ open \in {0, 1}
        /\ open = 1 <=> (s.pc \in {"transfer", "broadcast"}
                         \/ s.failed \in {"transfer", "broadcast"})
        /\ j <= Len(s.planned)
        /\ \A p \in 1..j : EngineSubm(s)[p] = s.planned[p]
        /\ j + Len(s.slice) + Len(s.queue) =
             IF s.pc \in {"broadcast", "cooldown"} THEN Len(s.planned) + (IF s.pc = "broadcast" THEN 1 ELSE 0)
             ELSE j
        /\ (s.pc = "sleep" /\ s.failed = "none") =>
             /\ EngineSubm(s) = s.planned
             /\ s.acked = Len(s.subm)
             /\ s.queue = << >> /\ s.slice = << >>

\* 7 operations broadcast one after the other across a cooldown
C14_Witness ==
  \E w \in Workers :
    /\ worker[w].pc = "sleep"
    /\ worker[w].failed = "none"
    /\ Len(worker[w].planned) = 7
    /\ EngineSubm(worker[w]) = worker[w].planned
    /\ worker[w].cooldowns = 1

\* C16 as stated: every native transfer submitted is for an amount a with
\* 0 < a <= liquid - reserve for the balance sampled in the cycle.
C16_KeepsReserve ==
  \A w \in Workers :
    LET s == worker[w]
        as == AssetsOf(kind[w])
    IN  \A p \in 1..Len(s.subm), i \in 1..Len(as) :
          (s.subm[p].action = "native_transfer" /\ s.subm[p].symbol = as[i]) =>
            /\ 0 < s.subm[p].quantity
            /\ s.subm[p].quantity * Sub <= s.snap[i] * Sub - RESERVE[as[i]]

\* C17 as stated: a cycle whose balance fetch succeeded ends with a transfer
\* attempted for every asset above its reserve.
C17_EveryAssetAttempted ==
  \A w \in Workers :
    LET s == worker[w]
        as == AssetsOf(kind[w])
    IN  (s.pc = "sleep" /\ s.snap # << >>) =>
          \A i \in 1..Len(as) :
            s.snap[i] * Sub > RESERVE[as[i]] => PosOf(s.subm, "native_transfer", as[i]) # {}

\* C17, amended: a cycle whose balance fetch succeeded ends with a transfer
\* attempted for every asset above its reserve unless the transfer of an
\* earlier asset failed: the assets after a failed transfer are not attempted.
C17_AttemptedUntilFailure ==
  \A w \in Workers :
    LET s == worker[w]
        as == AssetsOf(kind[w])
        above == {i \in 1..Len(as) : s.snap[i] * Sub > RESERVE[as[i]]}
        tried == {i \in 1..Len(as) : PosOf(s.subm, "native_transfer", as[i]) # {}}
    IN  (s.pc = "sleep" /\ s.snap # << >>) =>
          IF s.failed = "none" THEN tried = above
          ELSE /\ s.failed = "transfer"
               /\ tried # {}
               /\ \E f \in tried : tried = {i \in above : i <= f}
                                   /\ s.subm[Len(s.subm)].symbol = as[f]

\* the HIVE transfer fails: HBD, above its reserve, is not attempted
C17_Witness ==
  \E w \in Workers :
    /\ kind[w] = "hive"
    /\ worker[w].pc = "sleep"
    /\ worker[w].failed = "transfer"
    /\ worker[w].snap = <<2, 2>>
    /\ RESERVE["HIVE"] = Sub /\ RESERVE["HBD"] = Sub
    /\ Len(worker[w].subm) = 1
    /\ worker[w].subm[1].symbol = "HIVE"

\* C19: the sleep after failed attempt i of a retryAsync call is at least
\* min(15000, 1000 * 2^(i-1)) ms and at most 250 ms more, whatever the
\* maxAttempts option is, and a sleep is never shorter than the one before it
\* by more than the jitter.
C19_BackoffDelay ==
  [][\A i \in 1..MaxAttemptsOpt :
       (Frame.state = "calling" /\ Frame.attempt = i /\ Frame'.state = "sleeping") =>
         LET lo == IF 1000 * 2^(i - 1) < 15000 THEN 1000 * 2^(i - 1) ELSE 15000
         IN  /\ Frame.attempt < Frame.maxAttempts
             /\ Frame'.delayMs >= lo
             /\ Frame'.delayMs <= lo + 250
             /\ Frame'.delayMs + 250 > Frame.delayMs]_vars

\* the fifth sleep of a call with maxAttempts = 6 is capped at 15000 ms
C19_Witness ==
  /\ proc = "retry"
  /\ Frame.state = "sleeping"
  /\ Frame.maxAttempts = 6
  /\ Frame.attempt = 5
  /\ Frame.delayMs = 15000 + 249

\* C18: getEngineBalances posts to the entries of ENGINE_APIS in list order,
\* at most RETRY_MAX_ATTEMPTS times each; it goes on to the next entry only
\* when the current one has had all its attempts and the last error was
\* retryable, a step that keeps fetching always follows a retryable error (a
\* terminal one is thrown at once), and when the call fails with a retryable
\* error every entry has had all its attempts, the error is the last entry's,
\* and no more than (entries * RETRY_MAX_ATTEMPTS) requests were made.
C18_EndpointFailover ==
  /\ [](\A w \in Workers : kind[w] = "engine" =>
          LET s == worker[w]
              n == Len(s.posts)
          IN  /\ n <= ENGINE_APIS * RETRY_MAX_ATTEMPTS
              /\ \A p \in 1..n : s.posts[p] \in 1..ENGINE_APIS
              /\ n > 0 => s.posts[1] = 1
              /\ \A p \in 1..(n - 1) : s.posts[p + 1] \in {s.posts[p], s.posts[p] + 1}
              /\ \A u \in 1..ENGINE_APIS :
                   LET c == Cardinality({p \in 1..n : s.posts[p] = u})
                   IN  /\ c <= RETRY_MAX_ATTEMPTS
                       /\ (n > 0 /\ u < s.posts[n]) => c = RETRY_MAX_ATTEMPTS
              /\ (s.failed = "tokens" /\ isRetryableError(s.err)) =>
                   /\ n = ENGINE_APIS * RETRY_MAX_ATTEMPTS
                   /\ s.posts[n] = ENGINE_APIS)
  /\ [][\A w \in Workers :
          (kind[w] = "engine" /\ worker[w].pc = "tokens" /\ worker'[w].pc = "tokens"
             /\ worker[w].rt.state = "calling" /\ worker'[w] # worker[w]) =>
            /\ isRetryableError(IF worker'[w].rt.state = "sleeping"
                                THEN worker'[w].rt.err ELSE worker'[w].err)
            /\ worker'[w].urlIdx # worker[w].urlIdx =>
                 /\ worker'[w].urlIdx = worker[w].urlIdx + 1
                 /\ worker[w].rt.calls = RETRY_MAX_ATTEMPTS]_vars

\* two endpoints, three requests to each, all failing with 503
C18_Witness ==
  \E w \in Workers :
    /\ kind[w] = "engine"
    /\ ENGINE_APIS = 2
    /\ worker[w].failed = "tokens"
    /\ worker[w].err = E503
    /\ worker[w].posts = <<1, 1, 1, 2, 2, 2>>

\* C11: with m >= 2 entries in STEEM_RPC, after r calls of rotateSteemRpc,
\* made by whichever Steem workers in whatever order and over any number of
\* cycles, the active index is r mod m and steemClient is bound to that
\* entry; with m <= 1 the index and the client stay as they were created.
C11_RotationIsModular ==
  IF STEEM_RPCS >= 2
  THEN /\ steemRpcIndex = rotations % STEEM_RPCS
       /\ steemClient = steemRpcIndex
  ELSE /\ steemRpcIndex = 0
       /\ steemClient = 0

\* four rotations over three endpoints, two workers
C11_Witness ==
  /\ STEEM_RPCS = 3
  /\ \A w \in Workers : kind[w] = "steem" /\ worker[w].pc # "init"
  /\ rotations = 4
  /\ steemRpcIndex = 1
  /\ steemClient = 1

\* one endpoint, four calls of rotateSteemRpc
C11_WitnessSingle ==
  /\ STEEM_RPCS = 1
  /\ rotations = 4
  /\ steemRpcIndex = 0

\* C12 as stated: when a Steem balance fetch gives up on a retryable error
\* with m >= 2 endpoints, the client left active is the successor of the one
\* the last failed attempt went through.
C12_FailsOverOnExhaustion ==
  [][\A w \in Workers :
       (/\ kind[w] = "steem" /\ STEEM_RPCS >= 2
        /\ worker[w].pc = "balances" /\ worker[w].rt.state = "calling"
        /\ worker'[w].failed = "balances" /\ isRetryableError(worker'[w].err)) =>
         steemClient' = (worker[w].via + 1) % STEEM_RPCS]_vars

\* C20: in getSteemBalances the onRetry callback (rotateSteemRpc) has run once
\* for every retryable failure that was not the last attempt, in the step that
\* starts the backoff sleep; a failure that ends the call runs no callback;
\* and the attempt that follows a sleep goes through the client that is
\* active when the attempt starts.
C20_RotateThenRetry ==
  /\ [](\A w \in Workers :
          (kind[w] = "steem" /\ worker[w].rt.state \in {"calling", "sleeping"}) =>
            /\ worker[w].rt.onRetries = worker[w].rt.fails
            /\ worker[w].rt.onRetries = worker[w].rt.sleeps)
  /\ [][\A w \in Workers :
          (kind[w] = "steem" /\ worker[w].pc = "balances" /\ worker'[w] # worker[w]) =>
            /\ (worker[w].rt.state = "calling" /\ worker'[w].rt.state = "sleeping") =>
                 /\ worker'[w].rt.onRetries = worker[w].rt.onRetries + 1
                 /\ rotations' = rotations + 1
                 /\ STEEM_RPCS >= 2 => steemClient' = (steemClient + 1) % STEEM_RPCS
            /\ (worker[w].rt.state = "calling" /\ worker'[w].rt.state # "sleeping") =>
                 /\ rotations' = rotations
                 /\ steemClient' = steemClient
            /\ worker[w].rt.state = "sleeping" =>
                 /\ worker'[w].rt.state = "calling"
                 /\ rotations' = rotations
                 /\ worker'[w].via = steemClient']_vars

\* the second attempt of w1 goes through the endpoint the other worker's
\* rotation made active while w1 slept
C20_Witness ==
  /\ STEEM_RPCS = 3
  /\ kind["w2"] = "steem"
  /\ worker["w1"].pc = "balances"
  /\ worker["w1"].rt.state = "calling"
  /\ worker["w1"].rt.attempt = 2
  /\ worker["w1"].rt.onRetries = 1
  /\ rotations = 2
  /\ worker["w1"].via = 2

Count(q, x) == Cardinality({i \in 1..Len(q) : q[i] = x})

\* C13 as stated: an account never has two unstakes of one symbol under way
\* (broadcast and accepted, not yet matured).
C13_OneUnstakeInFlight ==
  \A w \in Workers : \A i \in 1..Len(ledger[w]) :
    Count(unstaking[w], ledger[w][i].symbol) <= 1

\* C13, amended: an Unstake of a symbol is submitted at most once per cycle,
\* and only in a cycle whose own reading of the ledger shows a stake and no
\* pendingUnstake for the symbol; the ledger itself never shows more than
\* the stake as pending, and the unstakes under way beyond the one it shows
\* are those the indexing service has not applied yet, read too early by the
\* cycle that broadcast them.
C13_NoUnstakeWhilePendingIsShown ==
  \A w \in Workers :
    LET s == worker[w]
    IN  /\ \A p \in 1..Len(s.subm) :
             s.subm[p].action = "unstake" =>
               /\ Cardinality(PosOf(s.subm, "unstake", s.subm[p].symbol)) = 1
               /\ \E i \in 1..Len(s.tokens) :
                    /\ s.tokens[i].symbol = s.subm[p].symbol
                    /\ s.tokens[i].stake > 0
                    /\ s.tokens[i].pendingUnstake = 0
        /\ \A i \in 1..Len(ledger[w]) :
             LET t == ledger[w][i]
             IN  /\ t.pendingUnstake <= t.stake
                 /\ Count(unstaking[w], t.symbol) =
                      (IF t.pendingUnstake > 0 THEN 1 ELSE 0)
                      + Cardinality(PosOf(chain[w], "unstake", t.symbol))

\* a cycle that read pendingUnstake > 0 for the first token ends without an
\* Unstake of it, although the stake is still there
C13_Witness ==
  \E w \in Workers :
    /\ history
    /\ worker[w].pc = "sleep"
    /\ worker[w].failed = "none"
    /\ worker[w].tokens # << >>
    /\ worker[w].tokens[1].stake > 0
    /\ worker[w].tokens[1].pendingUnstake > 0
    /\ worker[w].tokens[1].balance > 0
    /\ PosOf(worker[w].subm, "transfer", worker[w].tokens[1].symbol) # {}
    /\ PosOf(worker[w].subm, "unstake", worker[w].tokens[1].symbol) = {}
    /\ Count(unstaking[w], worker[w].tokens[1].symbol) = 1

\* the same symbol unstaked by two cycles in a row, the second having read
\* the ledger before the first unstake was applied
C13_WitnessLag ==
  \E w \in Workers : \E i \in 1..Len(ledger[w]) :
    /\ Count(unstaking[w], ledger[w][i].symbol) = 2
    /\ ledger[w][i].pendingUnstake = 0

\* C15: every token operation a worker submits in a cycle is one that the
\* token records fetched in that same cycle call for (same symbol, the
\* record's stake or balance as quantity), submitted once; a cycle begins
\* with nothing queued, also after a cycle that was aborted with operations
\* still in its queue.
C15_PlannedFromThisSnapshot ==
  \A w \in Workers :
    LET s == worker[w]
        e == EngineSubm(s)
    IN  /\ \A p \in 1..Len(e) :
             /\ Cardinality(PosOf(e, e[p].action, e[p].symbol)) = 1
             /\ \E i \in 1..Len(s.tokens) :
                  /\ s.tokens[i].symbol = e[p].symbol
                  /\ e[p].quantity > 0
                  /\ e[p].quantity = IF e[p].action = "unstake"
                                     THEN s.tokens[i].stake ELSE s.tokens[i].balance
        /\ (s.pc \in {"balances", "transfer", "tokens"}) =>
             /\ s.queue = << >> /\ s.slice = << >> /\ e = << >>
             /\ s.tokens = << >>

\* a cycle that follows an aborted one ends without having submitted an
\* operation the aborted cycle had left in its queue
C15_Witness ==
  \E w \in Workers :
    /\ worker[w].pc = "sleep"
    /\ worker[w].failed = "none"
    /\ worker[w].planned # << >>
    /\ EngineSubm(worker[w]) = worker[w].planned
    /\ \E p \in 1..Len(worker[w].stale) :
         PosOf(worker[w].subm, worker[w].stale[p].action, worker[w].stale[p].symbol) = {}

\* a broadcast signed with the key of worker w's account is in flight
Signing(w) == worker[w].pc \in {"transfer", "broadcast"}

\* C21 as stated: an account configured for both the Hive worker and the
\* Hive Engine worker never has two broadcasts signed by it in flight at once.
C21_OneBroadcastPerAccount ==
  \A v, w \in Workers :
    (v # w /\ name[v] = name[w] /\ {kind[v], kind[w]} = {"hive", "engine"}) =>
      ~(Signing(v) /\ Signing(w))

====
